---- MODULE Spec2Model ----
(***************************************************************************)
(* janela: window/monitor model, the Linux (wmctrl/xdotool/Xlib) and macOS *)
(* backends' mutating operations and verify_window_move, and the mosaic    *)
(* tiling engine with its row/column heuristic.                            *)
(*                                                                         *)
(* Five specifications share the variables:                                *)
(*   SpecGrid   - get_number_of_rows_columns applied to bounded inputs     *)
(*   Spec       - backend operations on one caller-held Window object      *)
(*   SpecMosaic - runs of mosaic() over monitors that do not overlap       *)
(*   SpecOverlap - the same, also over two outputs that overlap            *)
(*   SpecLookup - get_window_by_name over a list of titled windows         *)
(***************************************************************************)
EXTENDS Integers, Sequences, FiniteSets, TLC

VARIABLES
    window_count,   \* argument of get_number_of_rows_columns
    monitor,        \* argument of get_number_of_rows_columns
    grid,           \* its outcome: Pending, Returned(..) or ValueError
    monitors,       \* what xrandr reports: sequence of Monitor records
    os_windows,     \* what the window server holds: sequence of records
    window,         \* the Window object held by the caller (cached fields)
    last,           \* the last backend call: arguments, outcomes, result
    mosaic_state    \* position of a mosaic() run and what it has done

vars == <<window_count, monitor, grid, monitors, os_windows, window, last,
          mosaic_state>>

grid_vars == <<window_count, monitor, grid>>
backend_vars == <<monitors, os_windows, window, last>>

----------------------------------------------------------------------------
(* Bounds of the model                                                     *)

MaxWindowCount == 7     \* window_count ranges over 0..MaxWindowCount
MaxDim == 6             \* small monitors: width, height in 0..MaxDim
MaxFaults == 1          \* tool invocations of one call that do not end "ok"
MaxMosaicFaults == 2    \* the same, over the successive runs of mosaic()
MaxWindows == 4         \* windows on the server in a run of mosaic()
MaxRuns == 2            \* successive runs of mosaic()
MaxListed == 3          \* windows on the server when one is looked up
OracleLen == 8          \* tool invocations of one call whose end is chosen

----------------------------------------------------------------------------
(* Program constants                                                       *)

FULL_HD_WIDTH == 1920   \* _FULL_HD_RESOLUTION[0]
QHD_WIDTH == 2560       \* _QHD_RESOLUTION[0]
MantissaBits == 52      \* fraction bits of a Python float (IEEE-754 double)

----------------------------------------------------------------------------
(* Arithmetic helpers                                                      *)

Abs(n) == IF n < 0 THEN -n ELSE n

Max(a, b) == IF a >= b THEN a ELSE b

\* Python's a // b for b > 0 (floor division, also for negative a)
\* the quotient rounded toward zero, as C's / does
DivTowardZero(a, b) == IF a >= 0 THEN a \div b ELSE -((-a) \div b)

\* Python's a // b: rounded toward minus infinity
FloorDiv(a, b) == a \div b

\* the quotient rounded down instead of up
CeilDivRoundedDown(a, b) == a \div b

\* a ceiling taken as "the floor plus one": one too many on exact quotients
CeilDivPlusOne(a, b) == (a \div b) + 1

\* math.ceil(a / b) for integers a >= 0, b > 0
CeilDiv(a, b) == (a + b - 1) \div b

RECURSIVE Pow2(_)
Pow2(e) == IF e <= 0 THEN 1 ELSE 2 * Pow2(e - 1)

\* floor(log2(k)) for an integer k >= 1
RECURSIVE ILog2(_)
ILog2(k) == IF k < 2 THEN 0 ELSE 1 + ILog2(k \div 2)

\* 2^j mod h, by repeated doubling
RECURSIVE Pow2Mod(_, _)
Pow2Mod(j, h) == IF j <= 0 THEN 1 % h ELSE (2 * Pow2Mod(j - 1, h)) % h

\* floor(log2(w / h)) for w > 0, h > 0: the binary exponent of the float w/h
RECURSIVE Log2Up(_, _, _)
Log2Up(w, h, a) == IF w >= 2 * h * Pow2(a) THEN Log2Up(w, h, a + 1) ELSE a

RECURSIVE Log2Down(_, _, _)
Log2Down(w, h, a) == IF w * Pow2(a) < h THEN Log2Down(w, h, a + 1) ELSE a

FloorLog2Ratio(w, h) == IF w >= h THEN Log2Up(w, h, 0) ELSE -Log2Down(w, h, 1)

----------------------------------------------------------------------------
(* Monitor (interfaces/models.py)                                          *)

Monitor(id, name, x, y, width, height) ==
    [id |-> id, name |-> name, x |-> x, y |-> y,
     width |-> width, height |-> height]

contains(m, x, y) ==
    /\ m.x <= x /\ x < m.x + m.width
    /\ m.y <= y /\ y < m.y + m.height

----------------------------------------------------------------------------
(* get_number_of_rows_columns (playground/mosaic.py)                       *)

\* The rounding error of the float division monitor.width / monitor.height,
\* in units of h-ths of the last mantissa bit: float(w/h) - w/h equals
\* (DivRoundErr / h) * 2^(FloorLog2Ratio - MantissaBits).  The remainder of
\* the long division w * 2^(MantissaBits - a) by h decides the direction in
\* which round-to-nearest goes (a tie cannot happen for integers this small).
DivRoundErr(w, h) ==
    LET a == FloorLog2Ratio(w, h)
        rho == ((w % h) * Pow2Mod(MantissaBits - a, h)) % h
    IN  IF 2 * rho < h THEN -rho ELSE h - rho

\* The least integer c >= from with c*c*h >= n*w, i.e. ceil(sqrt(n*w/h)) in
\* exact arithmetic
RECURSIVE ExactCeilSqrt(_, _, _, _)
ExactCeilSqrt(n, w, h, from) ==
    IF from * from * h >= n * w THEN from
    ELSE ExactCeilSqrt(n, w, h, from + 1)

\* math.ceil(math.sqrt(window_count * monitor_ratio)) as the floats compute
\* it.  The floats differ from exact arithmetic only when n*w/h is a perfect
\* square k*k: the division rounded up (DivRoundErr > 0), the product
\* n * float(w/h) then rounds to the float just above k*k (its excess is
\* more than half a unit in the last place of k*k), and the square root of
\* that float rounds to the float just above k when the last place of k*k
\* is coarser than that of k squared (k*k >= 2 * 4^floor(log2 k)); the
\* ceiling is then k + 1.
CeilSqrtFloat(n, w, h) ==
    LET k == ExactCeilSqrt(n, w, h, 0)
    IN  IF k >= 1 /\ k * k * h = n * w
        THEN LET a == FloorLog2Ratio(w, h)
                 t == DivRoundErr(w, h)
                 E == ILog2(k * k)
                 Ek == ILog2(k)
             IN  IF /\ t > 0
                    /\ 2 * n * t > h * Pow2(E - a)
                    /\ E = 2 * Ek + 1
                 THEN k + 1 ELSE k
        ELSE k

\* aspect_ratio == 16 / 9 on floats: both sides are the correctly rounded
\* quotient, equal exactly when the fractions are
IsSixteenByNine(m) == m.width * 9 = m.height * 16

\* outcomes of a call: a (rows, columns) tuple, or ValueError raised; the
\* number of iterations the capacity loop made is kept beside the tuple
Returned(rows, columns, iterations) ==
    [status |-> "returned", rows |-> rows, columns |-> columns,
     iterations |-> iterations]

ValueError ==
    [status |-> "ValueError", rows |-> 0, columns |-> 0, iterations |-> 0]

Pending ==
    [status |-> "pending", rows |-> 0, columns |-> 0, iterations |-> 0]

\* the capacity loop: while rows * columns < window_count
RECURSIVE grow(_, _, _, _, _)
grow(rows, columns, n, m, iterations) ==
    IF rows * columns < n
    THEN IF m.width < m.height
         THEN grow(rows + 1, columns, n, m, iterations + 1)
         ELSE grow(rows, columns + 1, n, m, iterations + 1)
    ELSE Returned(rows, columns, iterations)

\* math.sqrt raises ValueError("math domain error") on a negative number:
\* window_count * aspect_ratio is one when width and height have opposite
\* signs (a zero width gives 0.0 or -0.0, whose root is taken)
NegativeRatio(m) ==
    \/ m.width < 0 /\ m.height > 0
    \/ m.width > 0 /\ m.height < 0

\* the heuristic with the column count rounded down instead of up
get_number_of_rows_columns_floor(n, m) ==
    IF n <= 0 THEN ValueError
    ELSE IF m.height = 0 THEN ValueError
    ELSE IF NegativeRatio(m) THEN ValueError
    ELSE LET exact == ExactCeilSqrt(n, Abs(m.width), Abs(m.height), 0)
             floor == IF exact * exact * Abs(m.height) = n * Abs(m.width)
                      THEN exact ELSE exact - 1
             columns == Max(1, floor)
             rows == Max(1, CeilDiv(n, columns))
         IN  grow(rows, columns, n, m, 0)

\* the heuristic accepting a window_count of zero
get_number_of_rows_columns_zero(n, m) ==
    IF n < 0 THEN ValueError
    ELSE IF m.height = 0 THEN ValueError
    ELSE IF IsSixteenByNine(m) /\ m.width >= FULL_HD_WIDTH /\ n = 2
         THEN Returned(1, 2, 0)
    ELSE IF IsSixteenByNine(m) /\ m.width >= FULL_HD_WIDTH /\ n = 3
            /\ m.width >= QHD_WIDTH
         THEN Returned(1, 3, 0)
    ELSE IF NegativeRatio(m) THEN ValueError
    ELSE LET columns == Max(1, CeilSqrtFloat(n, Abs(m.width), Abs(m.height)))
             rows == Max(1, CeilDiv(n, columns))
         IN  grow(rows, columns, n, m, 0)

\* the quotient of two negative numbers is the quotient of their absolute
\* values, on floats too
get_number_of_rows_columns(n, m) ==
    IF n <= 0 THEN ValueError
    ELSE IF m.height = 0 THEN ValueError
    ELSE IF IsSixteenByNine(m) /\ m.width >= FULL_HD_WIDTH /\ n = 2
         THEN Returned(1, 2, 0)
    ELSE IF IsSixteenByNine(m) /\ m.width >= FULL_HD_WIDTH /\ n = 3
            /\ m.width >= QHD_WIDTH
         THEN Returned(1, 3, 0)
    ELSE IF NegativeRatio(m) THEN ValueError
    ELSE LET columns == Max(1, CeilSqrtFloat(n, Abs(m.width), Abs(m.height)))
             rows == Max(1, CeilDiv(n, columns))
         IN  grow(rows, columns, n, m, 0)

----------------------------------------------------------------------------
(* Strings: titles, ids and monitor names are sequences of characters      *)

\* str.lower() on one character, over the alphabet the model uses
LowerChar(ch) ==
    CASE ch = "A" -> "a"
      [] ch = "B" -> "b"
      [] ch = "C" -> "c"
      [] ch = "D" -> "d"
      [] ch = "P" -> "p"
      [] ch = "X" -> "x"
      [] OTHER -> ch

lower(s) == [i \in 1..Len(s) |-> LowerChar(s[i])]

\* code points of the characters, for the order Python compares strings in
Ord(ch) ==
    CASE ch = "0" -> 48 [] ch = "1" -> 49 [] ch = "2" -> 50 [] ch = "3" -> 51
      [] ch = "4" -> 52
      [] ch = "A" -> 65 [] ch = "B" -> 66 [] ch = "C" -> 67 [] ch = "D" -> 68
      [] ch = "P" -> 80 [] ch = "X" -> 88
      [] ch = "a" -> 97 [] ch = "b" -> 98 [] ch = "c" -> 99 [] ch = "d" -> 100
      [] ch = "l" -> 108 [] ch = "m" -> 109 [] ch = "p" -> 112
      [] ch = "s" -> 115 [] ch = "x" -> 120
      [] OTHER -> 0

\* s < t as Python orders two strings
RECURSIVE StrLess(_, _)
StrLess(s, t) ==
    IF t = <<>> THEN FALSE
    ELSE IF s = <<>> THEN TRUE
    ELSE IF Ord(s[1]) # Ord(t[1]) THEN Ord(s[1]) < Ord(t[1])
    ELSE StrLess(Tail(s), Tail(t))

\* Python's `needle in hay` on strings
substring_in(needle, hay) ==
    \E i \in 0..(Len(hay) - Len(needle)) :
        SubSeq(hay, i + 1, i + Len(needle)) = needle

startswith(s, prefix) ==
    /\ Len(s) >= Len(prefix)
    /\ SubSeq(s, 1, Len(prefix)) = prefix

Plasma == <<"P", "l", "a", "s", "m", "a">>

----------------------------------------------------------------------------
(* Window (interfaces/models.py) and the window server's record of it      *)

Window(id, name, x, y, width, height, is_active) ==
    [id |-> id, name |-> name, x |-> x, y |-> y,
     width |-> width, height |-> height, is_active |-> is_active]

\* Python's None, for an Optional[Window] / Optional[Monitor]
NoWindow == Window(<<>>, <<>>, 0, 0, 0, 0, FALSE)
NoMonitor == Monitor(-1, <<>>, 0, 0, 0, 0)

\* no backend call made yet
NoCall ==
    [op |-> "none", backend |-> "none", pre |-> NoWindow, target |-> NoMonitor,
     a |-> 0, b |-> 0, log |-> <<>>, exc |-> FALSE, flag |-> FALSE,
     pre_os |-> <<>>, name |-> <<>>, verified |-> "none"]

\* one top-level window as the X server / window manager holds it
OsWindow(id, name, x, y, width, height, maximized, active, listed) ==
    [id |-> id, name |-> name, x |-> x, y |-> y,
     width |-> width, height |-> height,
     maximized |-> maximized, active |-> active, listed |-> listed]

\* index of the listed window with this id in the server's list, 0 if none
OsIndex(os, id) ==
    LET hits == { i \in 1..Len(os) : os[i].listed /\ os[i].id = lower(id) }
    IN  IF hits = {} THEN 0 ELSE CHOOSE i \in hits : \A j \in hits : i <= j

\* the first monitor of the server's layout containing a point, 0 if none
OsMonitorAt(mons, x, y) ==
    LET hits == { i \in 1..Len(mons) : contains(mons[i], x, y) }
    IN  IF hits = {} THEN 0 ELSE CHOOSE i \in hits : \A j \in hits : i <= j

----------------------------------------------------------------------------
(* The external tools: what a command does to the window server            *)

Tolerance == 10         \* verify_window_move: tolerance = 10
RestoredWidth == 12     \* geometry the window manager restores on unmaximize
RestoredHeight == 10

\* How an invocation ends: "ok" exits 0 and takes effect exactly as asked;
\* "fail" exits non-zero without effect; "raise" never starts (OSError from
\* subprocess); "near", "off_x", "off_y" exit 0 but the window manager
\* places the window (+10,+10), (+11,0), (0,+11) away from the request.
Exact == {"ok"}
Displaced == {"near", "off_x", "off_y"}
Faults == {"fail", "raise"} \cup Displaced

DeltaX(out) == CASE out = "near" -> Tolerance
                 [] out = "off_x" -> Tolerance + 1
                 [] OTHER -> 0

DeltaY(out) == CASE out = "near" -> Tolerance
                 [] out = "off_y" -> Tolerance + 1
                 [] OTHER -> 0

Command(cmd, by, id, x, y, width, height) ==
    [cmd |-> cmd, by |-> by, id |-> id, x |-> x, y |-> y,
     width |-> width, height |-> height, out |-> "ok"]

Mutating == {"wmctrl -e", "wmctrl -b add", "wmctrl -b remove", "wmctrl -ia",
             "wmctrl -ic"}

\* the outcome as the tool reports it: a displaced placement is a success
\* of a geometry request and means nothing for other commands; a command
\* naming a window the server does not list exits non-zero
Effective(os, c, out) ==
    IF out = "raise" THEN "raise"
    ELSE IF c.cmd \in Mutating /\ OsIndex(os, c.id) = 0 THEN "fail"
    ELSE IF out \in Displaced /\ c.cmd # "wmctrl -e" THEN "ok"
    ELSE out

\* wmctrl -e 0,x,y,w,h: -1 keeps the current value; a maximized window
\* ignores geometry requests
SetGeometry(w, c, out) ==
    IF w.maximized THEN w
    ELSE [w EXCEPT !.x = IF c.x = -1 THEN @ ELSE c.x + DeltaX(out),
                   !.y = IF c.y = -1 THEN @ ELSE c.y + DeltaY(out),
                   !.width = IF c.width = -1 THEN @ ELSE c.width,
                   !.height = IF c.height = -1 THEN @ ELSE c.height]

\* wmctrl -b add,maximized_vert,maximized_horz: the window fills the
\* monitor its origin is on
SetMaximized(w, mons) ==
    LET k == OsMonitorAt(mons, w.x, w.y)
    IN  IF k = 0 THEN [w EXCEPT !.maximized = TRUE]
        ELSE [w EXCEPT !.maximized = TRUE,
                       !.x = mons[k].x, !.y = mons[k].y,
                       !.width = mons[k].width, !.height = mons[k].height]

\* wmctrl -b remove,maximized_vert,maximized_horz: the restored geometry is
\* the window manager's choice
ClearMaximized(w) ==
    IF w.maximized
    THEN [w EXCEPT !.maximized = FALSE,
                   !.width = RestoredWidth, !.height = RestoredHeight]
    ELSE w

OsEffect(os, mons, c, out) ==
    LET k == OsIndex(os, c.id)
    IN  IF out \in {"fail", "raise"} \/ k = 0 THEN os
        ELSE CASE c.cmd = "wmctrl -e" ->
                    [os EXCEPT ![k] = SetGeometry(@, c, out)]
               [] c.cmd = "wmctrl -b add" ->
                    [os EXCEPT ![k] = SetMaximized(@, mons)]
               [] c.cmd = "wmctrl -b remove" ->
                    [os EXCEPT ![k] = ClearMaximized(@)]
               [] c.cmd = "wmctrl -ia" ->
                    [i \in 1..Len(os) |-> [os[i] EXCEPT !.active = (i = k)]]
               [] c.cmd = "wmctrl -ic" ->
                    [os EXCEPT ![k].listed = FALSE]
               [] OTHER -> os

----------------------------------------------------------------------------
(* Execution context of a backend call                                     *)
(*   os, mons : the window server's windows and monitor layout             *)
(*   w        : the Window object passed in by the caller                  *)
(*   fut      : how the coming tool invocations will end, in order         *)
(*   log      : the invocations made so far                                *)
(*   exc      : an exception is propagating                                *)
(*   result   : what run_command returned last                             *)
(*   flag, found, mon, wins, ms : return values of the methods             *)
(*   verified : what verify_window_move returned, "none" before it did     *)

Context(os, mons, w, fut) ==
    [os |-> os, mons |-> mons, w |-> w, fut |-> fut, log |-> <<>>,
     exc |-> FALSE, result |-> "", flag |-> FALSE, found |-> NoWindow,
     mon |-> NoMonitor, wins |-> <<>>, ms |-> <<>>, verified |-> "none"]

NextOutcome(c) == IF c.fut = <<>> THEN "ok" ELSE Head(c.fut)

Rest(c) == IF c.fut = <<>> THEN <<>> ELSE Tail(c.fut)

None == "None"

\* the invocation is over: logged, its effect applied, its text returned
ran(c, command, out) ==
    [c EXCEPT !.fut = Rest(c),
              !.log = Append(@, [command EXCEPT !.out = out]),
              !.os = OsEffect(c.os, c.mons, command, out),
              !.exc = (out = "raise"),
              !.result = IF out = "fail" \/ command.cmd \in Mutating
                         THEN "" ELSE "stdout"]

\* util/cmd.py: check_output's text (empty for the mutating wmctrl
\* requests, which print nothing), or "" after CalledProcessError; any
\* other exception propagates
run_command(c, command) ==
    IF c.exc THEN c
    ELSE ran(c, command, Effective(c.os, command, NextOutcome(c)))

----------------------------------------------------------------------------
(* Linux backend: WindowManagerImpl (_impl/wmctrl_xdotool_xlib.py)         *)

Query(cmd, by) == Command(cmd, by, <<>>, 0, 0, 0, 0)

\* the key sorted() is given: the name, case-folded or as it is
SortKey(e, fold) == IF fold THEN lower(e.name) ELSE e.name

\* stable insertion sort by name, as sorted(..., key=...) orders
RECURSIVE InsertByName(_, _, _)
InsertByName(sorted, e, fold) ==
    IF sorted = <<>> THEN <<e>>
    ELSE IF StrLess(SortKey(e, fold), SortKey(sorted[Len(sorted)], fold))
         THEN Append(InsertByName(SubSeq(sorted, 1, Len(sorted) - 1), e, fold),
                     sorted[Len(sorted)])
         ELSE Append(sorted, e)

RECURSIVE SortedByName(_, _)
SortedByName(seq, fold) ==
    IF seq = <<>> THEN <<>>
    ELSE InsertByName(SortedByName(SubSeq(seq, 1, Len(seq) - 1), fold),
                      seq[Len(seq)], fold)

\* Each method is written as the chain of its steps; a step takes the
\* context the step before it left and passes an exception through.

\* ids counted from 0 in xrandr's output order; nothing parsed from ""
monitors_parsed(c1) ==
    IF c1.exc THEN c1
    ELSE [c1 EXCEPT !.ms = IF c1.result = "" THEN <<>>
                           ELSE [i \in 1..Len(c1.mons) |->
                                   [c1.mons[i] EXCEPT !.id = i - 1]]]

get_monitors(c) ==
    monitors_parsed(run_command(c, Query("xrandr --current", "get_monitors")))

\* "" when xdotool printed no decimal id; the id is kept in found.id
active_id_parsed(c1) ==
    LET act == { i \in 1..Len(c1.os) : c1.os[i].listed /\ c1.os[i].active }
    IN  IF c1.exc THEN c1
        ELSE [c1 EXCEPT !.found =
                 IF c1.result = "" \/ act = {} THEN NoWindow
                 ELSE [NoWindow EXCEPT !.id = c1.os[CHOOSE i \in act : TRUE].id]]

get_active_window_id(c) ==
    active_id_parsed(run_command(c, Query("xdotool getactivewindow",
                                          "get_active_window_id")))

\* the lines of wmctrl -lG that list_windows keeps: a line with an empty
\* title has fewer than 8 fields, Plasma's shell windows are skipped
Kept(ow) ==
    /\ ow.listed
    /\ ow.name # <<>>
    /\ ~startswith(ow.name, Plasma)

RECURSIVE ParseWindows(_, _)
ParseWindows(os, active_id) ==
    IF os = <<>> THEN <<>>
    ELSE IF Kept(Head(os))
         THEN <<Window(Head(os).id, Head(os).name, Head(os).x, Head(os).y,
                       Head(os).width, Head(os).height,
                       lower(Head(os).id) = lower(active_id))>>
              \o ParseWindows(Tail(os), active_id)
         ELSE ParseWindows(Tail(os), active_id)

windows_parsed(c2) ==
    IF c2.exc THEN c2
    ELSE [c2 EXCEPT !.wins = IF c2.result = "" THEN <<>>
                             ELSE ParseWindows(c2.os, c2.found.id)]

list_windows(c) ==
    windows_parsed(run_command(get_active_window_id(c),
                               Query("wmctrl -lG", "list_windows")))

\* the first position of a sequence that is among `hits`, 0 if none
FirstOf(hits) ==
    IF hits = {} THEN 0 ELSE CHOOSE i \in hits : \A j \in hits : i <= j

\* seq[k], or Python's None for k = 0
ElementOr(seq, k, none) == IF k = 0 THEN none ELSE seq[k]

monitor_chosen(c1, win) ==
    IF c1.exc THEN c1
    ELSE [c1 EXCEPT !.mon =
             ElementOr(c1.ms,
                       FirstOf({ i \in 1..Len(c1.ms) :
                                   contains(c1.ms[i], win.x, win.y) }),
                       NoMonitor)]

get_monitor_for_window(c, win) == monitor_chosen(get_monitors(c), win)

window_chosen(c1, window_id) ==
    IF c1.exc THEN c1
    ELSE [c1 EXCEPT !.found =
             ElementOr(c1.wins,
                       FirstOf({ i \in 1..Len(c1.wins) :
                                   lower(c1.wins[i].id) = lower(window_id) }),
                       NoWindow)]

get_window_by_id(c, window_id) == window_chosen(list_windows(c), window_id)

\* for window in self.list_windows():
\*     if name.lower() in window.name.lower(): return window
name_matched(c1, name) ==
    IF c1.exc THEN c1
    ELSE [c1 EXCEPT !.found =
             ElementOr(c1.wins,
                       FirstOf({ i \in 1..Len(c1.wins) :
                                   substring_in(lower(name),
                                                lower(c1.wins[i].name)) }),
                       NoWindow)]

get_window_by_name(c, name) == name_matched(list_windows(c), name)

position_cached(c1, x, y) ==
    IF c1.exc THEN c1
    ELSE IF c1.result # None
         THEN [c1 EXCEPT !.w.x = x, !.w.y = y]
         ELSE c1

move_window_to_position(c, x, y) ==
    position_cached(run_command(c, Command("wmctrl -e",
                                           "move_window_to_position",
                                           c.w.id, x, y, -1, -1)),
                    x, y)

unmaximize_window(c) ==
    run_command(c, Command("wmctrl -b remove", "unmaximize_window",
                           c.w.id, 0, 0, 0, 0))

size_requested(c1, width, height) ==
    run_command(c1, Command("wmctrl -e", "resize_window",
                            c1.w.id, c1.w.x, c1.w.y, width, height))

size_cached(c2, width, height) ==
    IF c2.exc THEN c2
    ELSE IF c2.result # None
         THEN [c2 EXCEPT !.w.width = width, !.w.height = height]
         ELSE c2

resize_window(c, width, height) ==
    size_cached(size_requested(unmaximize_window(c), width, height),
                width, height)

\* the same, only the origin taken from the monitor
geometry_synced_origin_only(c2) ==
    IF c2.exc THEN c2
    ELSE IF c2.mon # NoMonitor
         THEN [c2 EXCEPT !.w.x = c2.mon.x, !.w.y = c2.mon.y]
         ELSE c2

\* if monitor: window.x, window.y, window.width, window.height = monitor's
geometry_synced(c2) ==
    IF c2.exc THEN c2
    ELSE IF c2.mon # NoMonitor
         THEN [c2 EXCEPT !.w.x = c2.mon.x, !.w.y = c2.mon.y,
                         !.w.width = c2.mon.width,
                         !.w.height = c2.mon.height]
         ELSE c2

maximize_requested(c1) ==
    IF c1.exc THEN c1
    ELSE IF c1.result # None
         THEN geometry_synced(get_monitor_for_window(c1, c1.w))
         ELSE c1

maximize_window(c) ==
    maximize_requested(run_command(c, Command("wmctrl -b add",
                                              "maximize_window",
                                              c.w.id, 0, 0, 0, 0)))

focus_cached(c1) ==
    IF c1.exc THEN c1
    ELSE IF c1.result # None
         THEN [c1 EXCEPT !.w.is_active = TRUE]
         ELSE c1

focus_window(c) ==
    focus_cached(run_command(c, Command("wmctrl -ia", "focus_window",
                                        c.w.id, 0, 0, 0, 0)))

close_window(c) ==
    run_command(c, Command("wmctrl -ic", "close_window", c.w.id, 0, 0, 0, 0))

\* the Xlib request is over: any exception (also BadWindow for a window
\* that is gone) was caught and gives False
state_read(c, win, out) ==
    [c EXCEPT !.fut = Rest(c),
              !.log = Append(@, [Command("Xlib _NET_WM_STATE",
                                         "is_window_maximized",
                                         win.id, 0, 0, 0, 0)
                                   EXCEPT !.out = out]),
              !.flag = IF out = "ok" THEN c.os[OsIndex(c.os, win.id)].maximized
                       ELSE FALSE]

\* is_window_maximized: reads _NET_WM_STATE through Xlib
is_window_maximized(c, win) ==
    IF c.exc THEN c
    ELSE state_read(c, win,
                    IF \/ NextOutcome(c) \in {"fail", "raise"}
                       \/ OsIndex(c.os, win.id) = 0
                    THEN "fail" ELSE "ok")

\* the position check accepting only deviations below the tolerance
position_verified_strict(c2, target_monitor, expected_x, expected_y) ==
    IF c2.exc THEN c2
    ELSE IF c2.mon # target_monitor THEN [c2 EXCEPT !.flag = FALSE]
    ELSE IF \/ Abs(c2.found.x - expected_x) >= Tolerance
            \/ Abs(c2.found.y - expected_y) >= Tolerance
         THEN [c2 EXCEPT !.flag = FALSE]
    ELSE [c2 EXCEPT !.w.x = c2.found.x, !.w.y = c2.found.y, !.flag = TRUE]

\* verify_window_move from the monitor check on; found is updated_window
position_verified(c2, target_monitor, expected_x, expected_y) ==
    IF c2.exc THEN c2
    ELSE IF c2.mon # target_monitor THEN [c2 EXCEPT !.flag = FALSE]
    ELSE IF \/ Abs(c2.found.x - expected_x) > Tolerance
            \/ Abs(c2.found.y - expected_y) > Tolerance
         THEN [c2 EXCEPT !.flag = FALSE]
    ELSE [c2 EXCEPT !.w.x = c2.found.x, !.w.y = c2.found.y, !.flag = TRUE]

window_requeried(c1, target_monitor, expected_x, expected_y) ==
    IF c1.exc THEN c1
    ELSE IF c1.found = NoWindow THEN [c1 EXCEPT !.flag = FALSE]
    ELSE position_verified(get_monitor_for_window(c1, c1.found),
                           target_monitor, expected_x, expected_y)

\* verify_window_move returns: its value is kept for the caller
verify_returned(c3) ==
    IF c3.exc THEN c3
    ELSE [c3 EXCEPT !.verified = IF c3.flag THEN "true" ELSE "false"]

verify_window_move(c, target_monitor, expected_x, expected_y) ==
    verify_returned(window_requeried(get_window_by_id(c, c.w.id),
                                     target_monitor, expected_x, expected_y))

\* the same, the maximized state restored whatever the verification said
maximized_restored_unverified(c3, was_maximized) ==
    IF c3.exc THEN c3
    ELSE IF was_maximized THEN maximize_window(c3)
    ELSE c3

\* move_to_monitor after the verification: re-maximize
maximized_restored(c3, was_maximized) ==
    IF c3.exc THEN c3
    ELSE IF c3.flag /\ was_maximized THEN maximize_window(c3)
    ELSE c3

move_verified(c2, m, was_maximized, center_x, center_y) ==
    IF c2.exc THEN c2
    ELSE IF c2.result # None
         THEN maximized_restored(
                  verify_window_move(c2, m, center_x, center_y),
                  was_maximized)
         ELSE c2

move_requested(c1, m, was_maximized, center_x, center_y) ==
    move_verified(run_command(c1, Command("wmctrl -e", "move_to_monitor",
                                          c1.w.id, center_x, center_y,
                                          c1.w.width, c1.w.height)),
                  m, was_maximized, center_x, center_y)

centered(c1, m, was_maximized) ==
    move_requested(c1, m, was_maximized,
                   m.x + FloorDiv(m.width - c1.w.width, 2),
                   m.y + FloorDiv(m.height - c1.w.height, 2))

unmaximized_first(c0, m) ==
    centered(IF c0.flag THEN unmaximize_window(c0) ELSE c0, m, c0.flag)

move_to_monitor(c, m) == unmaximized_first(is_window_maximized(c, c.w), m)

----------------------------------------------------------------------------
(* macOS backend: MacOSWindowManager (_impl/mac.py)                        *)

\* get_window_by_id: the first Quartz window whose number, as a string,
\* is window_id.  Window(...) is built without is_active, which the
\* dataclass requires: building it raises TypeError.
mac_get_window_by_id(c, window_id) ==
    IF c.exc THEN c
    ELSE IF { i \in 1..Len(c.os) : c.os[i].listed /\ c.os[i].id = window_id } = {}
         THEN [c EXCEPT !.found = NoWindow]
         ELSE [c EXCEPT !.exc = TRUE]

mac_window_compared(c1, expected_x, expected_y) ==
    IF c1.exc THEN c1
    ELSE IF c1.found # NoWindow
         THEN [c1 EXCEPT !.flag = /\ c1.found.x = expected_x
                                  /\ c1.found.y = expected_y]
         ELSE [c1 EXCEPT !.flag = FALSE]

mac_verify_window_move(c, target_monitor, expected_x, expected_y) ==
    mac_window_compared(mac_get_window_by_id(c, c.w.id),
                        expected_x, expected_y)

\* list_windows: one Window(...) per Quartz window, built without
\* is_active: the first one raises TypeError
mac_list_windows(c) ==
    IF c.exc THEN c
    ELSE IF \E i \in 1..Len(c.os) : c.os[i].listed
         THEN [c EXCEPT !.exc = TRUE]
         ELSE [c EXCEPT !.wins = <<>>]

\* for window in window_list: if window.name == name: return window
mac_name_matched(c1, name) ==
    IF c1.exc THEN c1
    ELSE [c1 EXCEPT !.found =
             ElementOr(c1.wins,
                       FirstOf({ i \in 1..Len(c1.wins) :
                                   c1.wins[i].name = name }),
                       NoWindow)]

mac_get_window_by_name(c, name) == mac_name_matched(mac_list_windows(c), name)

----------------------------------------------------------------------------
(* SpecGrid: the heuristic applied to bounded inputs                       *)

Dim(width, height) == Monitor(0, <<"A">>, 0, 0, width, height)

\* resolutions the heuristic special-cases or that appear in the
\* intended scenarios, and one on which the float square root overshoots
NamedMonitors ==
    { Dim(1920, 1080), Dim(2560, 1440), Dim(3840, 2160), Dim(1080, 1920),
      Dim(1280, 720), Dim(225, 7), Dim(100, 0) }

\* the Monitor dataclass takes any integers
GridMonitors ==
    { Dim(w, h) : w \in (-MaxDim)..MaxDim, h \in (-MaxDim)..MaxDim }
        \cup NamedMonitors


IdleBackend ==
    /\ monitors = <<>>
    /\ os_windows = <<>>
    /\ window = NoWindow
    /\ last = NoCall

\* where a run of mosaic() stands
\*   pc       : "start" before list_monitors, "monitor" at the head of the
\*              monitor loop, "window" at the head of the window loop,
\*              "done" after the call ended
\*   mons, mi : the sorted monitors and the position of the current one
\*   wins, i  : the current monitor's sorted windows, the next position
\*   visits   : what this run did, monitor by monitor and window by window
\*   escaped  : the call ended by an exception reaching the caller
\*   faults   : tool invocations so far that did not end "ok"
\*   first    : the server's windows as the first run left them
MosaicState(pc, run) ==
    [pc |-> pc, run |-> run, mons |-> <<>>, mi |-> 0, wins |-> <<>>, i |-> 0,
     rows |-> 0, columns |-> 0, visits |-> <<>>, escaped |-> FALSE,
     faults |-> 0, first |-> <<>>]

IdleMosaic == mosaic_state = MosaicState("idle", 0)

IdleGrid ==
    /\ window_count = 0
    /\ monitor = Dim(0, 0)
    /\ grid = [status |-> "idle", rows |-> 0, columns |-> 0, iterations |-> 0]

InitGrid ==
    /\ window_count \in (-1)..MaxWindowCount
    /\ monitor \in GridMonitors
    /\ grid = Pending
    /\ IdleBackend
    /\ IdleMosaic

call_get_number_of_rows_columns ==
    /\ grid = Pending
    /\ grid' = get_number_of_rows_columns(window_count, monitor)
    /\ UNCHANGED <<window_count, monitor, backend_vars, mosaic_state>>

NextGrid == call_get_number_of_rows_columns

SpecGrid == InitGrid /\ [][NextGrid]_vars

----------------------------------------------------------------------------
(* Spec: one backend call on a Window object the caller obtained earlier   *)

\* how the coming invocations end: at most MaxFaults of them not "ok"
RECURSIVE Oracles(_, _, _)
Oracles(len, faults, kinds) ==
    IF len = 0 THEN {<<>>}
    ELSE {<<"ok">> \o s : s \in Oracles(len - 1, faults, kinds)}
         \cup (IF faults <= 0 THEN {}
               ELSE {<<f>> \o s : f \in kinds,
                                  s \in Oracles(len - 1, faults - 1, kinds)})

Futures == Oracles(OracleLen, MaxFaults, Faults)

IdA == <<"0", "x", "1", "a">>
Title == <<"a", "b">>

NameOfFirst == <<"B">>
NameOfSecond == <<"A">>

MonitorSizes == {<<40, 24>>, <<24, 30>>}

\* two outputs side by side, as xrandr lists them
Layout(s1, s2) ==
    <<Monitor(0, NameOfFirst, 0, 0, s1[1], s1[2]),
      Monitor(1, NameOfSecond, s1[1], 0, s2[1], s2[2])>>

\* two outputs showing the same corner of the screen: a point can be on
\* both; the second has odd sizes
Mirrored ==
    <<Monitor(0, NameOfFirst, 0, 0, 40, 24),
      Monitor(1, NameOfSecond, 0, 0, 25, 31)>>

Layouts ==
    { Layout(s1, s2) : s1 \in MonitorSizes, s2 \in MonitorSizes }
        \cup {Mirrored}

\* where the window can be: maximized on a monitor, restored near a
\* monitor's origin, or with its origin off every monitor
Placements == {"max1", "max2", "in1", "in2", "off"}

Placed(mons, p, active) ==
    LET k == IF p \in {"max1", "in1"} THEN 1 ELSE 2
        m == mons[k]
    IN  CASE p \in {"max1", "max2"} ->
               OsWindow(IdA, Title, m.x, m.y, m.width, m.height,
                        TRUE, active, TRUE)
          [] p \in {"in1", "in2"} ->
               OsWindow(IdA, Title, m.x + 2, m.y + 2,
                        RestoredWidth, RestoredHeight, FALSE, active, TRUE)
          [] OTHER ->
               OsWindow(IdA, Title, -20, -20,
                        RestoredWidth, RestoredHeight, FALSE, active, TRUE)

\* the Window list_windows built from a server record
Snapshot(ow) ==
    Window(ow.id, ow.name, ow.x, ow.y, ow.width, ow.height, ow.active)

\* the caller listed the window when it was placed as `then`; it is placed
\* as `now` when the call is made
Init ==
    /\ monitors \in Layouts
    /\ \E then \in Placements, now \in Placements, active \in BOOLEAN :
          /\ os_windows = <<Placed(monitors, now, active)>>
          /\ window = Snapshot(Placed(monitors, then, active))
    /\ last = NoCall
    /\ IdleGrid
    /\ IdleMosaic

Start(fut) == Context(os_windows, monitors, window, fut)

\* the monitors the caller can pass: those get_monitors returns
KnownMonitors == { [monitors[i] EXCEPT !.id = i - 1] : i \in 1..Len(monitors) }

Positions == {<<2, 2>>, <<45, 3>>}
Sizes == {<<20, 16>>}
\* how far the expected position is from the caller's cached one
VerifyOffsets ==
    { <<0, 0>>, <<Tolerance, Tolerance>>, <<-Tolerance, -Tolerance>>,
      <<Tolerance + 1, 0>>, <<0, Tolerance + 1>>,
      <<-(Tolerance + 1), 0>>, <<0, -(Tolerance + 1)>> }

\* the call is over: its effects on the server and on the caller's object
Finish(op, backend, target, a, b, c) ==
    /\ os_windows' = c.os
    /\ window' = c.w
    /\ last' = [op |-> op, backend |-> backend, pre |-> window,
                target |-> target, a |-> a, b |-> b, log |-> c.log,
                exc |-> c.exc, flag |-> c.flag, pre_os |-> os_windows,
                name |-> <<>>, verified |-> c.verified]
    /\ UNCHANGED <<monitors, grid_vars, mosaic_state>>

Idle == last.op = "none" /\ monitors # <<>>

call_move_window_to_position ==
    /\ Idle
    /\ \E fut \in Futures, p \in Positions :
          Finish("move_window_to_position", "linux", NoMonitor, p[1], p[2],
                 move_window_to_position(Start(fut), p[1], p[2]))

call_resize_window ==
    /\ Idle
    /\ \E fut \in Futures, sz \in Sizes :
          Finish("resize_window", "linux", NoMonitor, sz[1], sz[2],
                 resize_window(Start(fut), sz[1], sz[2]))

call_maximize_window ==
    /\ Idle
    /\ \E fut \in Futures :
          Finish("maximize_window", "linux", NoMonitor, 0, 0,
                 maximize_window(Start(fut)))

call_unmaximize_window ==
    /\ Idle
    /\ \E fut \in Futures :
          Finish("unmaximize_window", "linux", NoMonitor, 0, 0,
                 unmaximize_window(Start(fut)))

call_focus_window ==
    /\ Idle
    /\ \E fut \in Futures :
          Finish("focus_window", "linux", NoMonitor, 0, 0,
                 focus_window(Start(fut)))

call_close_window ==
    /\ Idle
    /\ \E fut \in Futures :
          Finish("close_window", "linux", NoMonitor, 0, 0,
                 close_window(Start(fut)))

call_move_to_monitor ==
    /\ Idle
    /\ \E fut \in Futures, m \in KnownMonitors :
          Finish("move_to_monitor", "linux", m, 0, 0,
                 move_to_monitor(Start(fut), m))

call_verify_window_move ==
    /\ Idle
    /\ \E fut \in Futures, m \in KnownMonitors, d \in VerifyOffsets :
          Finish("verify_window_move", "linux", m,
                 window.x + d[1], window.y + d[2],
                 verify_window_move(Start(fut), m,
                                    window.x + d[1], window.y + d[2]))

call_mac_verify_window_move ==
    /\ Idle
    /\ \E m \in KnownMonitors, dx \in {0, Tolerance + 1} :
          Finish("verify_window_move", "mac", m, window.x + dx, window.y,
                 mac_verify_window_move(Start(<<>>), m, window.x + dx, window.y))

Next ==
    \/ call_move_window_to_position
    \/ call_resize_window
    \/ call_maximize_window
    \/ call_unmaximize_window
    \/ call_focus_window
    \/ call_close_window
    \/ call_move_to_monitor
    \/ call_verify_window_move
    \/ call_mac_verify_window_move

Spec == Init /\ [][Next]_vars

----------------------------------------------------------------------------
(* mosaic (playground/mosaic.py), driving the Linux backend                *)

\* list_monitors: sorted(self.get_monitors(), key=lambda x: x.name)
monitors_sorted(c1) ==
    IF c1.exc THEN c1 ELSE [c1 EXCEPT !.ms = SortedByName(c1.ms, FALSE)]

list_monitors(c) == monitors_sorted(get_monitors(c))

\* [window for window in list_windows() if window.monitor == monitor]:
\* window.monitor asks the backend for the window's monitor, window by
\* window
RECURSIVE windows_on(_, _, _, _)
RECURSIVE monitor_compared(_, _, _, _)
windows_on(c, wins, m, kept) ==
    IF c.exc THEN c
    ELSE IF wins = <<>> THEN [c EXCEPT !.wins = kept]
    ELSE monitor_compared(get_monitor_for_window(c, Head(wins)), wins, m, kept)

monitor_compared(c1, wins, m, kept) ==
    windows_on(c1, Tail(wins), m,
               IF c1.mon = m THEN Append(kept, Head(wins)) ELSE kept)

windows_listed(c1, m) == windows_on(c1, c1.wins, m, <<>>)

\* the same, ordered by the titles as they are
windows_sorted_as_written(c2) ==
    IF c2.exc THEN c2 ELSE [c2 EXCEPT !.wins = SortedByName(c2.wins, FALSE)]

\* sorted(windows, key=lambda w: (w.name or '').lower())
windows_sorted(c2) ==
    IF c2.exc THEN c2 ELSE [c2 EXCEPT !.wins = SortedByName(c2.wins, TRUE)]

maximized_if_not(c4) ==
    IF c4.exc \/ c4.flag THEN c4 ELSE maximize_window(c4)

\* if len(windows) == 1: maximize it unless it is maximized
single_window(c3) ==
    IF c3.exc \/ Len(c3.wins) # 1 THEN c3
    ELSE maximized_if_not(
             is_window_maximized([c3 EXCEPT !.w = c3.wins[1]], c3.wins[1]))

\* the body of the monitor loop up to the grid
monitor_pass(c, m) ==
    single_window(windows_sorted(windows_listed(list_windows(c), m)))

\* the same, filling the grid column by column
cell_position_column_major(m, win, i, rows, columns, window_width, window_height) ==
    <<m.x + (i \div rows) * window_width, m.y + (i % rows) * window_height>>

\* the cell of the window at position i (from 0) of the sorted order:
\* x = monitor.x + (i % columns) * window_width,
\* y = monitor.y + (i // columns) * window_height
cell_position(m, win, i, rows, columns, window_width, window_height) ==
    <<m.x + (i % columns) * window_width,
      m.y + (i \div columns) * window_height>>

\* the cell width rounded up, so that the cells cover the whole width
cell_width_rounded_up(m, columns) == CeilDiv(m.width, columns)

\* window_width = monitor.width // columns
cell_width(m, columns) == FloorDiv(m.width, columns)
cell_height(m, rows) == FloorDiv(m.height, rows)

\* the cell's position taken as an offset from where the window is
placed_relative(c2, xy) ==
    move_window_to_position(c2, c2.w.x + xy[1], c2.w.y + xy[2])

\* window_manager.move_window_to_position(window, x, y)
placed(c2, xy) == move_window_to_position(c2, xy[1], xy[2])

unmaximized_if_maximized(c0) ==
    IF c0.flag THEN unmaximize_window(c0) ELSE c0

\* the body of the window loop, inside its try
window_pass(c, m, i, rows, columns) ==
    placed(resize_window(unmaximized_if_maximized(is_window_maximized(c, c.w)),
                         cell_width(m, columns), cell_height(m, rows)),
           cell_position(m, c.w, i, rows, columns,
                         cell_width(m, columns), cell_height(m, rows)))

\* what the run has done at a monitor or a window: the commands issued,
\* the cell computed, and whether the server had the window maximized
\* when the visit began
FaultsIn(log) == Cardinality({ k \in 1..Len(log) : log[k].out # "ok" })

Visit(kind, m, n, idx, win, c, cell, rows, columns) ==
    [kind |-> kind, mon |-> m, n |-> n, idx |-> idx, id |-> win.id,
     exc |-> c.exc, log |-> c.log, rows |-> rows, columns |-> columns,
     was |-> /\ OsIndex(os_windows, win.id) # 0
             /\ os_windows[OsIndex(os_windows, win.id)].maximized,
     x |-> cell[1], y |-> cell[2], width |-> cell[3], height |-> cell[4]]

NoCell == <<0, 0, 0, 0>>

\* the monitor loop goes on with the next monitor, or the call returns
next_monitor(st) ==
    IF st.mi < Len(st.mons)
    THEN [st EXCEPT !.pc = "monitor", !.mi = @ + 1, !.wins = <<>>, !.i = 0]
    ELSE [st EXCEPT !.pc = "done", !.wins = <<>>, !.i = 0]

\* an exception in the window loop ends the monitor's pass
next_window_aborting(st, c) ==
    IF c.exc THEN next_monitor(st)
    ELSE IF st.i < Len(st.wins) THEN [st EXCEPT !.i = @ + 1]
    ELSE next_monitor(st)

\* the window loop goes on with the next window whatever happened: the
\* except clause inside the loop only reports
next_window(st, c) ==
    IF st.i < Len(st.wins) THEN [st EXCEPT !.i = @ + 1]
    ELSE next_monitor(st)

\* list_monitors() is outside every try: its exception reaches the caller
monitors_listed(st, c) ==
    IF c.exc
    THEN [st EXCEPT !.pc = "done", !.escaped = TRUE,
                    !.faults = @ + FaultsIn(c.log)]
    ELSE IF c.ms = <<>>
         THEN [st EXCEPT !.pc = "done", !.faults = @ + FaultsIn(c.log)]
         ELSE [st EXCEPT !.pc = "monitor", !.mons = c.ms, !.mi = 1,
                         !.faults = @ + FaultsIn(c.log)]

\* the monitor's windows are gathered: skip, maximize the only one, or
\* compute the grid and enter the window loop; an exception (also
\* ValueError from the heuristic) is reported and the next monitor follows
windows_gathered(st, c, m, g) ==
    IF c.exc \/ Len(c.wins) <= 1 \/ g.status # "returned"
    THEN next_monitor(
             [st EXCEPT !.faults = @ + FaultsIn(c.log),
                        !.visits = Append(@,
                            Visit("monitor", m,
                                  IF c.exc THEN -1 ELSE Len(c.wins), 0,
                                  c.w,
                                  [c EXCEPT !.exc = c.exc \/ (Len(c.wins) > 1)],
                                  NoCell, 0, 0))])
    ELSE [st EXCEPT !.pc = "window", !.wins = c.wins, !.i = 1,
                    !.rows = g.rows, !.columns = g.columns,
                    !.faults = @ + FaultsIn(c.log),
                    !.visits = Append(@, Visit("monitor", m, Len(c.wins), 0,
                                               NoWindow, c, NoCell,
                                               g.rows, g.columns))]

window_done(st, c, m, xy) ==
    next_window(
        [st EXCEPT !.wins[st.i] = c.w,
                   !.faults = @ + FaultsIn(c.log),
                   !.visits = Append(@,
                       Visit("window", m, Len(st.wins), st.i - 1, c.w, c,
                             <<xy[1], xy[2], cell_width(m, st.columns),
                               cell_height(m, st.rows)>>,
                             st.rows, st.columns))],
        c)

----------------------------------------------------------------------------
(* SpecMosaic: successive runs of mosaic() on a static set of windows      *)

\* what goes wrong during a run: a tool that cannot be started, whose
\* exception run_command lets through (non-zero exits are explored in Spec)
MosaicFaultKinds == {"raise"}

\* how the coming `len` invocations end, within what is left of the
\* budget
MosaicFutures(len) ==
    Oracles(len, MaxMosaicFaults - mosaic_state.faults, MosaicFaultKinds)

HD == <<1920, 1080>>

MosaicLayouts == { Layout(<<40, 24>>, <<24, 30>>), Layout(<<40, 24>>, HD) }

IdOf(j) == <<"0", "x", CASE j = 1 -> "1" [] j = 2 -> "2" [] j = 3 -> "3"
                         [] j = 4 -> "4" [] OTHER -> "a">>

\* titles whose case-folded order differs from their order on the server
\* and from their plain order, two of them equal when case-folded
TitleOf(j) == CASE j = 1 -> <<"b">>
                [] j = 2 -> <<"A">>
                [] j = 3 -> <<"C">>
                [] j = 4 -> <<"a">>
                [] OTHER -> <<"B", "a">>

\* the windows that start maximized: the first of those that are all on
\* one monitor, none of those split over two, the second otherwise
Maximized(pattern) ==
    CASE pattern = "second" -> {1} [] pattern = "split" -> {} [] OTHER -> {2}

\* window j of the server: all windows on the second monitor, or every
\* other one on the first, or the same with every third one below every
\* monitor; the windows in `maxed` are maximized
Tiled(mons, j, pattern, maxed) ==
    LET k == IF pattern # "second" /\ j % 2 = 0 THEN 1 ELSE 2
        m == mons[k]
    IN  IF pattern = "stray" /\ j % 3 = 0
        THEN OsWindow(IdOf(j), TitleOf(j), m.x + j, m.y + m.height + j,
                      RestoredWidth, RestoredHeight, FALSE, FALSE, TRUE)
        ELSE IF j \in maxed
        THEN OsWindow(IdOf(j), TitleOf(j), m.x, m.y, m.width, m.height,
                      TRUE, j = 1, TRUE)
        ELSE OsWindow(IdOf(j), TitleOf(j), m.x + 3 * j, m.y + 2 * j,
                      RestoredWidth, RestoredHeight, FALSE, j = 1, TRUE)

InitMosaic ==
    /\ monitors \in MosaicLayouts
    /\ \E n \in 0..MaxWindows, pattern \in {"second", "split", "stray"} :
          \E maxed \in {{}, Maximized(pattern)} :
              os_windows = [j \in 1..n |-> Tiled(monitors, j, pattern, maxed)]
    /\ window = NoWindow
    /\ last = NoCall
    /\ mosaic_state = MosaicState("start", 1)
    /\ IdleGrid

Fresh(fut) == Context(os_windows, monitors, NoWindow, fut)

Step(st, c) ==
    /\ mosaic_state' = st
    /\ os_windows' = c.os
    /\ UNCHANGED <<monitors, window, last, grid_vars>>

\* monitors = window_manager.list_monitors()
mosaic_start ==
    /\ mosaic_state.pc = "start"
    /\ \E fut \in MosaicFutures(1) :
          Step(monitors_listed(mosaic_state, list_monitors(Fresh(fut))),
               list_monitors(Fresh(fut)))

MonitorStep(c, m) ==
    Step(windows_gathered(mosaic_state, c, m,
                          get_number_of_rows_columns(Len(c.wins), m)),
         c)

\* one pass of `for monitor in monitors` up to the window loop: at most
\* two invocations to list the windows, one per window to find its
\* monitor, three to maximize a lone window
mosaic_monitor ==
    /\ mosaic_state.pc = "monitor"
    /\ \E fut \in MosaicFutures(Len(os_windows) + 5) :
          MonitorStep(monitor_pass(Fresh(fut),
                                   mosaic_state.mons[mosaic_state.mi]),
                      mosaic_state.mons[mosaic_state.mi])

WindowStep(c, m, w, i) ==
    Step(window_done(mosaic_state, c, m,
                     cell_position(m, w, i, mosaic_state.rows,
                                   mosaic_state.columns,
                                   cell_width(m, mosaic_state.columns),
                                   cell_height(m, mosaic_state.rows))),
         c)

\* one pass of `for i, window in enumerate(windows)`: at most five
\* invocations
mosaic_window ==
    /\ mosaic_state.pc = "window"
    /\ \E fut \in MosaicFutures(5) :
          WindowStep(window_pass(Context(os_windows, monitors,
                                         mosaic_state.wins[mosaic_state.i],
                                         fut),
                                 mosaic_state.mons[mosaic_state.mi],
                                 mosaic_state.i - 1,
                                 mosaic_state.rows, mosaic_state.columns),
                     mosaic_state.mons[mosaic_state.mi],
                     mosaic_state.wins[mosaic_state.i],
                     mosaic_state.i - 1)

\* the caller runs mosaic() again right after a run in which every tool
\* invocation ended "ok"
mosaic_again ==
    /\ mosaic_state.pc = "done"
    /\ mosaic_state.run < MaxRuns
    /\ mosaic_state.faults = 0
    /\ mosaic_state' = [MosaicState("start", mosaic_state.run + 1)
                          EXCEPT !.first = IF mosaic_state.run = 1
                                           THEN os_windows
                                           ELSE mosaic_state.first]
    /\ UNCHANGED <<backend_vars, grid_vars>>

NextMosaic ==
    \/ mosaic_start
    \/ mosaic_monitor
    \/ mosaic_window
    \/ mosaic_again

SpecMosaic == InitMosaic /\ [][NextMosaic]_vars

----------------------------------------------------------------------------
(* SpecOverlap: runs of mosaic() where outputs may overlap                 *)

\* the second output starts inside the first, as xrandr --pos allows; the
\* first one listed wins the points they share
Overlapping ==
    <<Monitor(0, NameOfFirst, 0, 0, 40, 24),
      Monitor(1, NameOfSecond, 35, 0, 40, 24)>>

InitOverlap ==
    /\ monitors \in MosaicLayouts \cup {Overlapping}
    /\ \E n \in 0..MaxWindows, pattern \in {"second", "split", "stray"} :
          \E maxed \in {{}, Maximized(pattern)} :
              os_windows = [j \in 1..n |-> Tiled(monitors, j, pattern, maxed)]
    /\ window = NoWindow
    /\ last = NoCall
    /\ mosaic_state = MosaicState("start", 1)
    /\ IdleGrid

SpecOverlap == InitOverlap /\ [][NextMosaic]_vars

----------------------------------------------------------------------------
(* SpecLookup: one get_window_by_name call, on either backend              *)

\* titles that contain one another, that differ by case only from what is
\* asked for, and one list_windows skips
LookupTitles ==
    { <<"a", "b">>, <<"A", "B", "c">>, <<"c", "A", "b">>, <<"b">>,
      Plasma \o <<"b">> }

LookupNames ==
    { <<"a", "b">>, <<"A", "B">>, <<"b">>, <<"d">>, <<"a", "b", "c">>, <<>> }

InitLookup ==
    /\ monitors = Layout(<<40, 24>>, <<24, 30>>)
    /\ \E n \in 0..MaxListed :
          \E t \in [1..n -> LookupTitles] :
              os_windows = [j \in 1..n |->
                               OsWindow(IdOf(j), t[j], 2 * j, 2,
                                        RestoredWidth, RestoredHeight,
                                        FALSE, j = 1, TRUE)]
    /\ window = NoWindow
    /\ last = NoCall
    /\ IdleGrid
    /\ IdleMosaic

\* the call is over: the caller holds what it returned
Looked(backend, name, c) ==
    /\ os_windows' = c.os
    /\ window' = c.found
    /\ last' = [NoCall EXCEPT !.op = "get_window_by_name",
                              !.backend = backend, !.name = name,
                              !.log = c.log, !.exc = c.exc,
                              !.pre_os = os_windows]
    /\ UNCHANGED <<monitors, grid_vars, mosaic_state>>

call_get_window_by_name ==
    /\ Idle
    /\ \E fut \in Futures, name \in LookupNames :
          Looked("linux", name,
                 get_window_by_name(Context(os_windows, monitors, NoWindow,
                                            fut), name))

call_mac_get_window_by_name ==
    /\ Idle
    /\ \E name \in LookupNames :
          Looked("mac", name,
                 mac_get_window_by_name(Context(os_windows, monitors,
                                                NoWindow, <<>>), name))

NextLookup ==
    \/ call_get_window_by_name
    \/ call_mac_get_window_by_name

SpecLookup == InitLookup /\ [][NextLookup]_vars

----------------------------------------------------------------------------
(* What the window server holds after a call, read without the backend     *)

\* the server's record of the window the call was about
Server == os_windows[1]

\* the invocations of one tool made by the last call
Invocations(cmd) == { i \in 1..Len(last.log) : last.log[i].cmd = cmd }

Succeeded(cmd) == \E i \in Invocations(cmd) : last.log[i].out # "fail"

AllExact == \A i \in 1..Len(last.log) : last.log[i].out = "ok"

\* the command a mutating method is named after exited non-zero
OwnCommandFailed ==
    \E i \in 1..Len(last.log) :
        last.log[i].by = last.op /\ last.log[i].out = "fail"

SameGeometry(a, b) ==
    /\ a.x = b.x /\ a.y = b.y
    /\ a.width = b.width /\ a.height = b.height

\* the monitor of the layout the server's window has its origin on
MonitorOfServer ==
    LET hits == { m \in KnownMonitors : contains(m, Server.x, Server.y) }
    IN  IF hits = {} THEN NoMonitor
        ELSE CHOOSE m \in hits : \A o \in hits : m.id <= o.id

----------------------------------------------------------------------------
(* Claims about the backend calls                                          *)

\* C1: in the Linux backend, when the OS command of a mutating operation
\* exits non-zero the Window's cached fields are unchanged:
\* move_window_to_position leaves x,y, resize_window leaves width,height,
\* maximize_window leaves x,y,width,height, focus_window leaves is_active.
C1_FailureLeavesCacheUnchanged ==
    (last.backend = "linux" /\ OwnCommandFailed) =>
        /\ last.op = "move_window_to_position" =>
              window.x = last.pre.x /\ window.y = last.pre.y
        /\ last.op = "resize_window" =>
              window.width = last.pre.width /\ window.height = last.pre.height
        /\ last.op = "maximize_window" => SameGeometry(window, last.pre)
        /\ last.op = "focus_window" => window.is_active = last.pre.is_active

\* the window was maximized on monitor A when move_to_monitor was called,
\* and the caller's object said so
MaximizedOn(A) ==
    /\ last.pre_os[1].listed /\ last.pre_os[1].maximized
    /\ SameGeometry(last.pre_os[1], A)
    /\ SameGeometry(last.pre, A)

\* C2: a window maximized on monitor A that move_to_monitor moves to a
\* distinct monitor B, every command succeeding and taking effect as
\* requested, ends maximized on B with its cached geometry equal to B's
\* rectangle.
C2_MaximizedFollowsToMonitor ==
    (/\ last.op = "move_to_monitor" /\ last.backend = "linux"
     /\ AllExact
     /\ \E A \in KnownMonitors : A # last.target /\ MaximizedOn(A)) =>
        /\ Server.maximized
        /\ SameGeometry(window, last.target)

\* the single re-query found the window: wmctrl listed it under its id
Requeried ==
    /\ Succeeded("wmctrl -lG")
    /\ Server.listed /\ Server.name # <<>> /\ ~startswith(Server.name, Plasma)
    /\ lower(Server.id) = lower(last.pre.id)

OnTarget ==
    /\ Succeeded("xrandr --current")
    /\ MonitorOfServer = last.target

WithinTolerance ==
    /\ Abs(Server.x - last.a) <= 10
    /\ Abs(Server.y - last.b) <= 10

\* C3: Linux verify_window_move returns true exactly when the window is
\* found by id in the re-query, the monitor holding the re-queried origin
\* is target_monitor, and x and y are each within 10 px of the expected
\* values; it re-queries the window list once and never again.
C3_VerifyExactly ==
    (last.op = "verify_window_move" /\ last.backend = "linux") =>
        /\ Cardinality(Invocations("wmctrl -lG")) <= 1
        /\ ~last.exc =>
              /\ Cardinality(Invocations("wmctrl -lG")) = 1
              /\ last.flag <=> (Requeried /\ OnTarget /\ WithinTolerance)

\* C3 happens: accepted with a deviation of exactly 10 px
C3_Witness ==
    /\ last.op = "verify_window_move" /\ last.backend = "linux"
    /\ ~last.exc /\ last.flag
    /\ Abs(Server.x - last.a) = 10

NoToolRaised == \A i \in 1..Len(last.log) : last.log[i].out # "raise"

\* C4: in every backend verify_window_move returns false when the
\* re-queried window's origin is on a monitor other than target_monitor,
\* whatever the coordinates (no external tool failing to start).
C4_OtherMonitorIsFalse ==
    (/\ last.op = "verify_window_move"
     /\ NoToolRaised
     /\ Server.listed /\ Server.name # <<>>
     /\ MonitorOfServer # last.target) =>
        (~last.exc /\ ~last.flag)

----------------------------------------------------------------------------
(* Claims about get_number_of_rows_columns (under SpecGrid)                *)

Called(n, width, height) ==
    /\ grid.status # "pending"
    /\ window_count = n /\ monitor.width = width /\ monitor.height = height

PositiveInput ==
    /\ grid.status # "pending" /\ grid.status # "idle"
    /\ window_count > 0 /\ monitor.width > 0 /\ monitor.height > 0

\* C7 as stated: f(3, 1080x1920) returns a grid with rows > columns.
C7_PortraitMoreRows ==
    Called(3, 1080, 1920) =>
        (grid.status = "returned" /\ grid.rows > grid.columns)

\* C7 amended: f(3, 1080x1920) returns the square grid (rows 2, columns 2);
\* rows is not less than columns but does not exceed it.
C7_PortraitSquare ==
    Called(3, 1080, 1920) =>
        (grid.status = "returned" /\ grid.rows = 2 /\ grid.columns = 2)

C7_Witness == Called(3, 1080, 1920) /\ grid.status = "returned"

\* the least c >= 1 with c*c*height >= window_count*width, that is
\* ceil(sqrt(window_count * width / height))
LeastColumns ==
    LET area == window_count * monitor.width
    IN  CHOOSE c \in 1..((area \div monitor.height) + 1) :
            /\ c * c * monitor.height >= area
            /\ c = 1 \/ (c - 1) * (c - 1) * monitor.height < area

WideScreen(min_width) ==
    monitor.width * 9 = monitor.height * 16 /\ monitor.width >= min_width

\* C8: for positive inputs the result is (1,2) on a 16:9 monitor at least
\* 1920 wide with 2 windows, (1,3) on a 16:9 monitor at least 2560 wide
\* with 3 windows, and otherwise columns = ceil(sqrt(window_count * width /
\* height)), at least 1, and rows = ceil(window_count / columns).
C8_GridFormula ==
    PositiveInput =>
        /\ grid.status = "returned"
        /\ IF WideScreen(1920) /\ window_count = 2
           THEN grid.rows = 1 /\ grid.columns = 2
           ELSE IF WideScreen(2560) /\ window_count = 3
           THEN grid.rows = 1 /\ grid.columns = 3
           ELSE /\ grid.columns = LeastColumns
                /\ grid.rows * grid.columns >= window_count
                /\ (grid.rows - 1) * grid.columns < window_count

\* C9: for positive inputs the grid has rows >= 1, columns >= 1, room for
\* every window, and one row fewer would not have room.
C9_GridCapacity ==
    PositiveInput =>
        /\ grid.status = "returned"
        /\ grid.rows >= 1 /\ grid.columns >= 1
        /\ grid.rows * grid.columns >= window_count
        /\ (grid.rows - 1) * grid.columns < window_count

C9_Witness ==
    /\ Called(5, 1920, 1080) /\ grid.status = "returned"
    /\ grid.rows * grid.columns >= 5

----------------------------------------------------------------------------
(* Claims about mosaic                                                     *)

Visits == mosaic_state.visits

WindowVisits == { k \in 1..Len(Visits) : Visits[k].kind = "window" }

MonitorVisits == { k \in 1..Len(Visits) : Visits[k].kind = "monitor" }

\* every tool invocation of the visit ended "ok"
AllOk(v) == \A e \in 1..Len(v.log) : v.log[e].out = "ok"

ServerWindow(id) == os_windows[OsIndex(os_windows, id)]

\* the visit asked the server for this size and then for this position
Resized(v, width, height) ==
    \E e \in 1..Len(v.log) :
        /\ v.log[e].by = "resize_window" /\ v.log[e].cmd = "wmctrl -e"
        /\ v.log[e].width = width /\ v.log[e].height = height

Moved(v, x, y) ==
    \E e \in 1..Len(v.log) :
        /\ v.log[e].by = "move_window_to_position"
        /\ v.log[e].x = x /\ v.log[e].y = y

\* the window was resized and moved to the cell, and where every
\* invocation ended "ok" the server shows it there
TiledAt(v, x, y, width, height) ==
    /\ Resized(v, width, height)
    /\ Moved(v, x, y)
    /\ AllOk(v) =>
          /\ ServerWindow(v.id).x = x /\ ServerWindow(v.id).y = y
          /\ ServerWindow(v.id).width = width
          /\ ServerWindow(v.id).height = height
          /\ ~ServerWindow(v.id).maximized

SameState(a, b) == SameGeometry(a, b) /\ a.maximized = b.maximized

\* C5: with every command succeeding and taking effect as requested, a
\* second run of mosaic right after the first leaves every window with the
\* position, size and maximized state it had after the first run
C5_MosaicIdempotent ==
    (mosaic_state.pc = "done" /\ mosaic_state.run = 2
        /\ mosaic_state.faults = 0)
    => /\ Len(os_windows) = Len(mosaic_state.first)
       /\ \A j \in 1..Len(os_windows) :
              SameState(os_windows[j], mosaic_state.first[j])

\* a second run that tiled one monitor's windows and met a monitor with a
\* single window
C5_Witness ==
    /\ mosaic_state.pc = "done" /\ mosaic_state.run = 2
    /\ mosaic_state.faults = 0
    /\ \E k \in WindowVisits : Visits[k].idx > 0
    /\ \E k \in MonitorVisits : Visits[k].n = 1

\* a window of the four on the 1920x1080 monitor, no invocation raising
FourOnFullHd(v) ==
    /\ v.kind = "window" /\ v.n = 4 /\ ~v.exc
    /\ v.mon.width = 1920 /\ v.mon.height = 1080

\* C6 as stated: 4 windows on a 1920x1080 monitor get 3 columns and 2 rows
\* without growth and cells of 640x540; the window at sorted index 0 goes
\* to (monitor.x, monitor.y), the one at index 3 to
\* (monitor.x + 2*640, monitor.y + 540)
C6_LastWindowInThirdColumn ==
    \A k \in 1..Len(Visits) :
        FourOnFullHd(Visits[k]) =>
            /\ Visits[k].columns = 3 /\ Visits[k].rows = 2
            /\ get_number_of_rows_columns(4, Visits[k].mon).iterations = 0
            /\ Visits[k].idx = 0 =>
                   TiledAt(Visits[k], Visits[k].mon.x, Visits[k].mon.y,
                           640, 540)
            /\ Visits[k].idx = 3 =>
                   TiledAt(Visits[k], Visits[k].mon.x + 2 * 640,
                           Visits[k].mon.y + 540, 640, 540)

\* C6: 4 windows on a 1920x1080 monitor get 3 columns and 2 rows without
\* growth and cells of 640x540; the window at sorted index 0 goes to
\* (monitor.x, monitor.y), the one at index 3 opens the second row at
\* (monitor.x, monitor.y + 540)
C6_LastWindowOpensSecondRow ==
    \A k \in 1..Len(Visits) :
        FourOnFullHd(Visits[k]) =>
            /\ Visits[k].columns = 3 /\ Visits[k].rows = 2
            /\ get_number_of_rows_columns(4, Visits[k].mon).iterations = 0
            /\ Visits[k].idx = 0 =>
                   TiledAt(Visits[k], Visits[k].mon.x, Visits[k].mon.y,
                           640, 540)
            /\ Visits[k].idx = 3 =>
                   TiledAt(Visits[k], Visits[k].mon.x,
                           Visits[k].mon.y + 540, 640, 540)

\* the fourth window of a 1920x1080 monitor that does not start at the
\* origin has been tiled, every invocation ending "ok"
C6_Witness ==
    \E k \in 1..Len(Visits) :
        /\ FourOnFullHd(Visits[k]) /\ Visits[k].idx = 3
        /\ AllOk(Visits[k]) /\ Visits[k].mon.x > 0

\* the visit of monitor m, if this run has made it
VisitOfMonitor(m) == { k \in MonitorVisits : Visits[k].mon = m }

VisitOfWindow(m, idx) ==
    { k \in WindowVisits : Visits[k].mon = m /\ Visits[k].idx = idx }

\* C10: when the run is over, an exception raised while a window or a
\* monitor was processed has not reached the caller, every monitor has been
\* processed, and on a monitor that entered the window loop every window
\* of the sorted order has been visited, each one whose own invocations
\* ended "ok" resized and moved to its own cell
C10_FailuresIsolated ==
    mosaic_state.pc = "done" =>
        /\ (Visits # <<>>) => ~mosaic_state.escaped
        /\ ~mosaic_state.escaped =>
               \A i \in 1..Len(mosaic_state.mons) :
                   VisitOfMonitor(mosaic_state.mons[i]) # {}
        /\ \A k \in MonitorVisits :
               (Visits[k].n >= 2 /\ ~Visits[k].exc) =>
                   \A idx \in 0..(Visits[k].n - 1) :
                       \E j \in VisitOfWindow(Visits[k].mon, idx) :
                           /\ j > k
                           /\ AllOk(Visits[j]) =>
                                  TiledAt(Visits[j], Visits[j].x, Visits[j].y,
                                          Visits[j].width, Visits[j].height)

\* a run is over in which the first monitor's processing raised, the next
\* monitor was processed all the same, a window there raised and a later
\* window of that monitor was tiled
C10_Witness ==
    /\ mosaic_state.pc = "done" /\ ~mosaic_state.escaped
    /\ \E k \in MonitorVisits :
           /\ Visits[k].exc
           /\ \E j \in MonitorVisits : j > k /\ Visits[j].n >= 2
    /\ \E k \in WindowVisits :
           /\ Visits[k].exc
           /\ \E j \in WindowVisits :
                  /\ j > k /\ Visits[j].mon = Visits[k].mon
                  /\ AllOk(Visits[j])
                  /\ ServerWindow(Visits[j].id).x = Visits[j].x
                  /\ ServerWindow(Visits[j].id).width = Visits[j].width

----------------------------------------------------------------------------
(* Claims about get_window_by_name                                         *)

\* the windows list_windows returns, as positions of the server's list:
\* the Linux backend skips some lines of wmctrl's output
InList(backend) ==
    { i \in 1..Len(last.pre_os) :
        IF backend = "linux" THEN Kept(last.pre_os[i])
        ELSE last.pre_os[i].listed }

\* those whose title contains the name, case ignored
Containing(backend, name) ==
    { i \in InList(backend) :
        substring_in(lower(name), lower(last.pre_os[i].name)) }

LookedUp(backend) ==
    /\ last.op = "get_window_by_name" /\ last.backend = backend
    /\ AllExact

\* the call returned the first window whose title contains the name, none
\* if there is no such window
FirstContaining(backend) ==
    /\ ~last.exc
    /\ Containing(backend, last.name) = {} => window = NoWindow
    /\ Containing(backend, last.name) # {} =>
           /\ window.id = last.pre_os[FirstOf(Containing(backend, last.name))].id
           /\ window.name =
                  last.pre_os[FirstOf(Containing(backend, last.name))].name

\* the Linux half of C11, which the code satisfies
LinuxFirstContaining == LookedUp("linux") => FirstContaining("linux")

\* C11: on the Linux and on the macOS backend, get_window_by_name(name)
\* returns the first window of list_windows whose title contains name,
\* case ignored, and none when no title contains it
C11_FirstTitleContaining ==
    /\ LookedUp("linux") => FirstContaining("linux")
    /\ LookedUp("mac") => FirstContaining("mac")

----------------------------------------------------------------------------
(* Claims about maximize_window and move_to_monitor                        *)

\* the command the method is named after ended "ok"
OwnCommandOk ==
    \E i \in 1..Len(last.log) :
        last.log[i].by = last.op /\ last.log[i].out = "ok"

\* the monitors get_monitors returned to the call: none when xrandr
\* exited non-zero
MonitorsSeen ==
    IF \E i \in 1..Len(last.log) :
           last.log[i].cmd = "xrandr --current" /\ last.log[i].out = "ok"
    THEN KnownMonitors ELSE {}

\* those containing the origin the caller's Window had before the call
AroundCachedOrigin ==
    { m \in MonitorsSeen : contains(m, last.pre.x, last.pre.y) }

FirstAroundCachedOrigin ==
    CHOOSE m \in AroundCachedOrigin : \A o \in AroundCachedOrigin : m.id <= o.id

MaximizeSucceeded ==
    /\ last.op = "maximize_window" /\ last.backend = "linux"
    /\ ~last.exc /\ OwnCommandOk

\* C12: after a Linux maximize_window whose command succeeded, the cached
\* x,y,width,height are those of the first monitor containing the cached
\* origin, and are unchanged if no monitor contains it
C12_MaximizeSyncsToMonitor ==
    MaximizeSucceeded =>
        /\ AroundCachedOrigin # {} =>
               SameGeometry(window, FirstAroundCachedOrigin)
        /\ AroundCachedOrigin = {} => SameGeometry(window, last.pre)

\* a restored window, cached on one monitor while the server has it on the
\* other, was maximized and its cached geometry became the first one's
C12_Witness ==
    /\ MaximizeSucceeded
    /\ AroundCachedOrigin # {}
    /\ ~SameGeometry(last.pre, FirstAroundCachedOrigin)
    /\ SameGeometry(window, FirstAroundCachedOrigin)
    /\ ~contains(FirstAroundCachedOrigin, last.pre_os[1].x, last.pre_os[1].y)

\* the same where two monitors contain the cached origin
C12_WitnessMirrored ==
    /\ MaximizeSucceeded
    /\ Cardinality(AroundCachedOrigin) > 1
    /\ SameGeometry(window, FirstAroundCachedOrigin)
    /\ ~SameGeometry(last.pre, FirstAroundCachedOrigin)

----------------------------------------------------------------------------
(* Claims about the heuristic's preconditions and its capacity loop        *)

Answered == grid.status # "pending" /\ grid.status # "idle"

C13_WitnessNoWindows == Called(0, 1920, 1080) /\ grid = ValueError

\* a call with sizes of opposite signs has raised, one with two negative
\* sizes has returned
C13_WitnessNegative ==
    \/ /\ Answered /\ window_count = 1 /\ monitor.width = 1
       /\ monitor.height = -1 /\ grid = ValueError
    \/ /\ Answered /\ window_count = 2 /\ monitor.width = -4
       /\ monitor.height = -3 /\ grid = Returned(1, 2, 0)

\* C17: for window_count > 0 and a monitor of positive width and height
\* the capacity loop makes no iteration: the columns and rows computed
\* first already hold every window, whether the monitor is portrait or
\* landscape
C17_NoGrowth ==
    PositiveInput =>
        /\ grid.status = "returned"
        /\ grid.iterations = 0
        /\ grid.rows * grid.columns >= window_count

\* a portrait monitor whose first grid (3 rows of 2) holds the 5 windows
C17_Witness ==
    /\ Called(5, 1080, 1920) /\ grid.status = "returned"
    /\ grid.iterations = 0 /\ grid.rows > grid.columns

----------------------------------------------------------------------------
(* Claims about the steps of move_to_monitor                               *)

MovedToMonitor == last.op = "move_to_monitor" /\ last.backend = "linux"

\* is_window_maximized returned true at entry
WasMaximized ==
    /\ Len(last.log) >= 1
    /\ last.log[1].by = "is_window_maximized" /\ last.log[1].out = "ok"
    /\ last.pre_os[1].maximized

ReMaximizeAt ==
    { i \in 1..Len(last.log) :
        last.log[i].by = "maximize_window" /\ last.log[i].cmd = "wmctrl -b add" }

MoveRequestAt ==
    { i \in 1..Len(last.log) :
        last.log[i].by = "move_to_monitor" /\ last.log[i].cmd = "wmctrl -e" }

UnmaximizeAt ==
    { i \in 1..Len(last.log) :
        last.log[i].by = "unmaximize_window"
            /\ last.log[i].cmd = "wmctrl -b remove" }

\* the commands that act on the window, as positions of the log
WindowCommandAt ==
    { i \in 1..Len(last.log) : last.log[i].cmd \in Mutating }

C14_WitnessVerified ==
    /\ MovedToMonitor /\ WasMaximized /\ last.verified = "true"
    /\ ReMaximizeAt # {} /\ Server.maximized

\* q is floor(d / 2)
IsFloorOfHalf(q, d) == 2 * q <= d /\ d < 2 * q + 2

\* C15: the Linux move_to_monitor makes one move request; it targets
\* x = monitor.x + floor((monitor.width - window.width) / 2) and
\* y = monitor.y + floor((monitor.height - window.height) / 2) with the
\* cached width and height, unclamped (left of / above the monitor's
\* origin when the cached window is larger), and carries the cached width
\* and height unchanged
C15_CentredUnclamped ==
    (MovedToMonitor /\ MoveRequestAt # {}) =>
        /\ Cardinality(MoveRequestAt) = 1
        /\ \A i \in MoveRequestAt :
               /\ IsFloorOfHalf(last.log[i].x - last.target.x,
                                last.target.width - last.pre.width)
               /\ IsFloorOfHalf(last.log[i].y - last.target.y,
                                last.target.height - last.pre.height)
               /\ last.pre.width > last.target.width =>
                      last.log[i].x < last.target.x
               /\ last.pre.height > last.target.height =>
                      last.log[i].y < last.target.y
               /\ last.log[i].width = last.pre.width
               /\ last.log[i].height = last.pre.height

\* a move request for a cached window taller than the monitor by an odd
\* number of pixels: the target is above the monitor's origin
C15_Witness ==
    /\ MovedToMonitor
    /\ \E i \in MoveRequestAt :
           /\ (last.pre.height - last.target.height) % 2 = 1
           /\ last.pre.height > last.target.height
           /\ last.log[i].y < last.target.y
           /\ last.log[i].x > last.target.x

----------------------------------------------------------------------------
(* Claims about the cells mosaic assigns                                   *)

\* the windows list_windows returns whose origin is on the monitor
OnMonitor(m) ==
    { j \in 1..Len(os_windows) :
        Kept(os_windows[j]) /\ contains(m, os_windows[j].x, os_windows[j].y) }

\* window k comes before window j when names are compared without case,
\* equal names keeping the server's order
Before(k, j) ==
    \/ StrLess(lower(os_windows[k].name), lower(os_windows[j].name))
    \/ /\ lower(os_windows[k].name) = lower(os_windows[j].name)
       /\ k < j

Rank(j, m) == Cardinality({ k \in OnMonitor(m) : Before(k, j) })

\* the methods behind the commands of a visit, in order
Methods(v) == [e \in 1..Len(v.log) |-> <<v.log[e].by, v.log[e].cmd>>]

\* is_window_maximized, unmaximize_window if it said so, then resize_window
\* (which unmaximizes before it requests the size) and
\* move_window_to_position
MethodsExpected(v) ==
    <<<<"is_window_maximized", "Xlib _NET_WM_STATE">>>>
    \o (IF v.was /\ v.log[1].out = "ok"
        THEN <<<<"unmaximize_window", "wmctrl -b remove">>>> ELSE <<>>)
    \o <<<<"unmaximize_window", "wmctrl -b remove">>,
         <<"resize_window", "wmctrl -e">>,
         <<"move_window_to_position", "wmctrl -e">>>>

\* the visit of a window during which no tool raised
Tiling(v) == v.kind = "window" /\ ~v.exc

TiledByHeuristic(v, j, g) ==
    /\ g.status = "returned"
    /\ v.idx = Rank(j, v.mon)
    /\ Methods(v) = MethodsExpected(v)
    /\ TiledAt(v,
               v.mon.x + (v.idx % g.columns) * (v.mon.width \div g.columns),
               v.mon.y + (v.idx \div g.columns) * (v.mon.height \div g.rows),
               v.mon.width \div g.columns, v.mon.height \div g.rows)

\* C16: on a monitor where mosaic finds n >= 2 windows, the window at
\* index i of the case-insensitive name order receives an unmaximize (only
\* if it is maximized), then a resize to (monitor.width // columns,
\* monitor.height // rows), then a move to
\* (monitor.x + (i % columns) * cell_width,
\*  monitor.y + (i // columns) * cell_height), rows and columns being the
\* heuristic's; when all commands succeed that is its final geometry
C16_CellsByNameOrder ==
    \A k \in 1..Len(Visits) :
        Tiling(Visits[k]) =>
            /\ Visits[k].n = Cardinality(OnMonitor(Visits[k].mon))
            /\ Visits[k].n >= 2
            /\ TiledByHeuristic(
                   Visits[k], OsIndex(os_windows, Visits[k].id),
                   get_number_of_rows_columns(Visits[k].n, Visits[k].mon))

\* a maximized window whose place in the name order is not its place in
\* the server's list has been unmaximized, resized and moved, every
\* command succeeding
C16_Witness ==
    \E k \in 1..Len(Visits) :
        /\ Tiling(Visits[k]) /\ AllOk(Visits[k]) /\ Visits[k].was
        /\ Visits[k].idx > 0
        /\ Visits[k].idx # Cardinality({ j \in OnMonitor(Visits[k].mon) :
                                 j < OsIndex(os_windows, Visits[k].id) })

\* the rectangles share no point
Disjoint(ax, ay, aw, ah, bx, by, bw, bh) ==
    \/ ax + aw <= bx \/ bx + bw <= ax
    \/ ay + ah <= by \/ by + bh <= ay

NonOverlapping ==
    \A i \in 1..Len(monitors) : \A j \in 1..Len(monitors) :
        i < j => Disjoint(monitors[i].x, monitors[i].y,
                          monitors[i].width, monitors[i].height,
                          monitors[j].x, monitors[j].y,
                          monitors[j].width, monitors[j].height)

\* the visit asked for the cell it computed
CellRequested(v) == Moved(v, v.x, v.y) /\ Resized(v, v.width, v.height)

CellInside(v) ==
    /\ v.mon.x <= v.x /\ v.x + v.width <= v.mon.x + v.mon.width
    /\ v.mon.y <= v.y /\ v.y + v.height <= v.mon.y + v.mon.height

\* the cells of a monitor whose grid leaves every cell at least a pixel:
\* each inside the monitor, two of them sharing no point
CellsApart ==
    \A k \in WindowVisits :
        (Visits[k].mon.width >= Visits[k].columns
            /\ Visits[k].mon.height >= Visits[k].rows) =>
            /\ Tiling(Visits[k]) => CellRequested(Visits[k])
            /\ CellInside(Visits[k])
            /\ \A j \in WindowVisits :
                   (Visits[j].mon = Visits[k].mon
                        /\ Visits[j].idx # Visits[k].idx) =>
                       Disjoint(Visits[k].x, Visits[k].y,
                                Visits[k].width, Visits[k].height,
                                Visits[j].x, Visits[j].y,
                                Visits[j].width, Visits[j].height)

\* the monitor get_monitor_for_window gives for a point
MonitorAt(x, y) ==
    IF OsMonitorAt(monitors, x, y) = 0 THEN NoMonitor
    ELSE monitors[OsMonitorAt(monitors, x, y)]

\* a window tiled with every command succeeding is still on the monitor
\* in whose pass it was tiled, and no window was tiled in two passes
StaysOnMonitor ==
    /\ \A k \in WindowVisits :
           AllOk(Visits[k]) =>
               MonitorAt(ServerWindow(Visits[k].id).x,
                         ServerWindow(Visits[k].id).y) = Visits[k].mon
    /\ \A k \in WindowVisits : \A j \in WindowVisits :
           Visits[j].id = Visits[k].id => Visits[j].mon = Visits[k].mon

\* C18 as stated: on a monitor where mosaic tiles n >= 2 windows (width >=
\* columns, height >= rows) the cells are pairwise non-overlapping and lie
\* inside the monitor; hence a tiled window's origin still resolves to the
\* same monitor, and in one run no window is tiled in the pass of more
\* than one monitor
C18_TiledOnce == CellsApart /\ StaysOnMonitor

\* C18: the cells are pairwise non-overlapping and lie inside the monitor;
\* when the monitors do not overlap one another, a tiled window's origin
\* still resolves to the same monitor and in one run no window is tiled in
\* the pass of more than one monitor
C18_TiledOnceOnDisjointMonitors ==
    /\ CellsApart
    /\ NonOverlapping => StaysOnMonitor

\* a run over disjoint monitors is over in which both monitors had their
\* windows tiled, every command succeeding
C18_Witness ==
    /\ mosaic_state.pc = "done" /\ NonOverlapping
    /\ mosaic_state.faults = 0
    /\ \E k \in WindowVisits : \E j \in WindowVisits :
           /\ Visits[k].mon # Visits[j].mon
           /\ Visits[k].idx > 0 /\ Visits[j].idx > 0

====
